---- MODULE Spec2Model ----
(***************************************************************************)
(* Model of src/libstat/stat_config.c (rspamd): the registry of statistics *)
(* providers, rspamd_stat_init (Bootstrap), rspamd_stat_close (Teardown)   *)
(* and the lookup accessors.                                               *)
(*                                                                         *)
(* Pointers to heap objects are positive integers (indices into the heap   *)
(* sequences below) and the C NULL pointer is 0.  Descriptors are the      *)
(* positions of their entries in the static tables.  Strings are TLA+      *)
(* strings; a NULL string pointer is the reserved string NullStr.          *)
(***************************************************************************)
EXTENDS Integers, Sequences, FiniteSets, Bags, TLC

(***************************************************************************)
(* Bounds of the model                                                     *)
(***************************************************************************)
\* classifiers, statfiles and async elements allocated while one context lives
MaxObjects == 4
\* calls of rspamd_stat_init in one run
MaxInits == 2

(***************************************************************************)
(* Values                                                                  *)
(***************************************************************************)
NULL == 0

\* a NULL const gchar *
NullStr == "(null)"

\* a NULL const ucl_object_t *
NullObj == [type |-> "null"]

\* a NULL tokenizer configuration (stat_ctx->tkcf after g_slice_alloc0)
NullCf == [type |-> "null"]

(***************************************************************************)
(* The static descriptor tables, by name                                   *)
(***************************************************************************)
RSPAMD_DEFAULT_CLASSIFIER == "bayes"
RSPAMD_DEFAULT_BACKEND == "mmap"
RSPAMD_DEFAULT_TOKENIZER == "osb"
RSPAMD_DEFAULT_CACHE == "sqlite3"

WITH_HIREDIS == FALSE

stat_classifiers == <<"bayes">>

stat_tokenizers == <<"osb-text", "osb">>

stat_backends ==
    IF WITH_HIREDIS THEN <<"mmap", "sqlite3", "redis">> ELSE <<"mmap", "sqlite3">>

stat_caches == <<RSPAMD_DEFAULT_CACHE>>

\* the scan missing the last entry of the table
FirstMatchShort(subrs, count, name) ==
    IF \E k \in 1..(count - 1) : subrs[k] = name
    THEN CHOOSE k \in 1..(count - 1) :
            /\ subrs[k] = name
            /\ \A m \in 1..(k - 1) : subrs[m] # name
    ELSE NULL

\* the loop of the four accessors over count entries of the table subrs: the
\* first entry whose name is equal (strcmp), or NULL
FirstMatch(subrs, count, name) ==
    IF \E k \in 1..count : subrs[k] = name
    THEN CHOOSE k \in 1..count :
            /\ subrs[k] = name
            /\ \A m \in 1..(k - 1) : subrs[m] # name
    ELSE NULL

\* the test for the NULL pointer only
IsNullOnly(name) == name = NullStr

\* name == NULL || name[0] == '\0'
IsUnset(name) == name = NullStr \/ name = ""

(***************************************************************************)
(* The configuration tree: classifier definitions                          *)
(***************************************************************************)
Symbols == <<"BAYES_SPAM", "BAYES_HAM">>

\* a "cache" object of the options, with the given "name" key (NullStr: no key)
CacheObj(name) == [type |-> "object", name |-> name]

\* an options object with the given "cache" key (NullObj: no key)
OptsObj(cache) == [type |-> "object", cache |-> cache]

\* ucl_object_find_key (obj, "cache")
FindCache(opts) == opts.cache

\* ucl_object_find_key (cache_obj, "name") followed by ucl_object_tostring
FindName(cache) == cache.name

\* the statfile definitions of a classifier definition: the first n symbols
Statfiles(n) == SubSeq(Symbols, 1, n)

ClfDef(backend, classifier, tokenizer, opts, n) ==
    [backend |-> backend, classifier |-> classifier, tokenizer |-> tokenizer,
     opts |-> opts, statfiles |-> Statfiles(n)]

\* the classifier definitions a configuration is made of: five that name
\* providers of the tables (or, for the third, a tokenizer that is not), with and
\* without options, a cache object and a cache name, and with two, one or no
\* statfile, and one for each of the backend, the classifier and the cache
\* named but not in the tables
ClfDefs ==
    {ClfDef("mmap", "bayes", "osb", NullObj, 2),
     ClfDef("sqlite3", "", "osb-text", OptsObj(CacheObj("sqlite3")), 1),
     ClfDef("mmap", "bayes", "nosuch", OptsObj(CacheObj(NullStr)), 1),
     ClfDef(NullStr, "bayes", "osb", OptsObj(NullObj), 0),
     ClfDef("", "bayes", NullStr, NullObj, 1),
     ClfDef("nosuch", "bayes", "osb", NullObj, 1),
     ClfDef("mmap", "nosuch", "osb", NullObj, 1),
     ClfDef("mmap", "bayes", "osb", OptsObj(CacheObj("nosuch")), 1)}

\* the objects rspamd_stat_init allocates for definition d: the classifier and
\* one statfile for each statfile definition
ObjectsOf(d) == 1 + Len(d.statfiles)

\* cfg->classifiers: the lists of definitions whose objects number at most n
RECURSIVE Configs(_)
Configs(n) ==
    {<<>>} \cup
    UNION {{<<d>> \o rest : rest \in Configs(n - ObjectsOf(d))} :
            d \in {e \in ClfDefs : ObjectsOf(e) <= n}}

(***************************************************************************)
(* State.  The three heaps hold the objects allocated since the context    *)
(* that exists, or existed last, was made; freed objects stay in them,     *)
(* marked freed, and the objects of earlier contexts are forgotten.        *)
(***************************************************************************)
VARIABLES
    stat_ctx,       \* the static pointer: NULL or the address of the context
    ctx,            \* the struct rspamd_stat_ctx that stat_ctx points to
    cl_heap,        \* the struct rspamd_classifier objects, by address
    st_heap,        \* the struct rspamd_statfile objects, by address
    aelts,          \* the struct rspamd_stat_async_elt objects, by address
    cfg_refs,       \* bag of the references this code holds on configurations
    pc,             \* position of the control thread
    failed_assert,  \* source line where the process aborted, or 0
    cfg,            \* rspamd_stat_init: the argument cfg and cfg->classifiers
    cur,            \* rspamd_stat_init: position of cur in cfg->classifiers
    curst,          \* rspamd_stat_init: position of curst in clf->statfiles
    bk,             \* rspamd_stat_init: the local bk
    cl,             \* rspamd_stat_init: the local cl
    cache_obj,      \* rspamd_stat_init: the local cache_obj
    cache_name,     \* rspamd_stat_init: the local cache_name
    i,              \* rspamd_stat_close: the local i (from 1)
    j,              \* rspamd_stat_close: the local j (from 1)
    acur,           \* rspamd_stat_close: position of cur in the async queue
    ninits,         \* history: calls of rspamd_stat_init
    ncloses,        \* history: returns of rspamd_stat_close
    drained,        \* history: async elements visited by the current close
    events,         \* history: what the current close has released, in order
    tk_calls,       \* history: tokenizer lookups and get_config calls, per context
    ret             \* the value the last accessor call returned, until the next call

vars ==
    <<stat_ctx, ctx, cl_heap, st_heap, aelts, cfg_refs, pc, failed_assert,
      cfg, cur, curst, bk, cl, cache_obj, cache_name, i, j, acur,
      ninits, ncloses, drained, events, tk_calls, ret>>

init_locals == <<cfg, cur, curst, bk, cl, cache_obj, cache_name>>

close_locals == <<i, j, acur>>

\* g_slice_alloc0 (sizeof (*stat_ctx))
ZeroCtx ==
    [tokenizer |-> NULL, tkcf |-> NullCf, cfg |-> NULL,
     statfiles |-> <<>>, classifiers |-> <<>>, async_elts |-> <<>>,
     queue |-> 0,
     backends_subrs |-> <<>>, backends_count |-> 0,
     classifiers_subrs |-> <<>>, classifiers_count |-> 0,
     tokenizers_subrs |-> <<>>, tokenizers_count |-> 0,
     caches_subrs |-> <<>>, caches_count |-> 0]

\* no accessor was called since the last call of anything else
NoCall == [kind |-> "none"]

\* no tokenizer was looked up in this context
NoTkCalls == [lookups |-> 0, configs |-> 0]

\* REF_RETAIN (cfg)
RefRetain(refs, c) == refs (+) SetToBag({c})

\* REF_RELEASE (cfg)
RefRelease(refs, c) == refs (-) SetToBag({c})

\* rspamd_stat_get_ctx
rspamd_stat_get_ctx == stat_ctx

\* what an accessor call ends in when it reads stat_ctx->..._count through a
\* NULL stat_ctx: the read is at a small offset from address 0, which no
\* process has mapped, and the process is killed by the signal
SIGSEGV == -1

\* the tables read without the context
CtxNotRead(p) == TRUE

\* stat_ctx->..._count and stat_ctx->..._subrs can be read
CtxReadable(p) == p # NULL

rspamd_stat_get_classifier(name) ==
    IF CtxReadable(stat_ctx)
    THEN FirstMatch(ctx.classifiers_subrs, ctx.classifiers_count,
                    IF IsUnset(name) THEN RSPAMD_DEFAULT_CLASSIFIER ELSE name)
    ELSE SIGSEGV

rspamd_stat_get_backend(name) ==
    IF CtxReadable(stat_ctx)
    THEN FirstMatch(ctx.backends_subrs, ctx.backends_count,
                    IF IsUnset(name) THEN RSPAMD_DEFAULT_BACKEND ELSE name)
    ELSE SIGSEGV

rspamd_stat_get_tokenizer(name) ==
    IF CtxReadable(stat_ctx)
    THEN FirstMatch(ctx.tokenizers_subrs, ctx.tokenizers_count,
                    IF IsUnset(name) THEN RSPAMD_DEFAULT_TOKENIZER ELSE name)
    ELSE SIGSEGV

rspamd_stat_get_cache(name) ==
    IF CtxReadable(stat_ctx)
    THEN FirstMatch(ctx.caches_subrs, ctx.caches_count,
                    IF IsUnset(name) THEN RSPAMD_DEFAULT_CACHE ELSE name)
    ELSE SIGSEGV

\* the locals of rspamd_stat_init while it is not running
InitLocalsGone ==
    /\ cfg = [ptr |-> NULL, classifiers |-> <<>>]
    /\ cur = 1
    /\ curst = 1
    /\ bk = NULL
    /\ cl = NULL
    /\ cache_obj = NullObj
    /\ cache_name = NullStr

\* the locals of rspamd_stat_close while it is not running
CloseLocalsGone ==
    /\ i = 1
    /\ j = 1
    /\ acur = NULL

\* a return of rspamd_stat_init
DropInitLocals ==
    /\ cfg' = [ptr |-> NULL, classifiers |-> <<>>]
    /\ cur' = 1
    /\ curst' = 1
    /\ bk' = NULL
    /\ cl' = NULL
    /\ cache_obj' = NullObj
    /\ cache_name' = NullStr

\* a return of rspamd_stat_close
DropCloseLocals ==
    /\ i' = 1
    /\ j' = 1
    /\ acur' = NULL

Init ==
    /\ stat_ctx = NULL
    /\ ctx = ZeroCtx
    /\ cl_heap = <<>>
    /\ st_heap = <<>>
    /\ aelts = <<>>
    /\ cfg_refs = EmptyBag
    /\ pc = "idle"
    /\ failed_assert = 0
    /\ InitLocalsGone
    /\ CloseLocalsGone
    /\ ninits = 0
    /\ ncloses = 0
    /\ drained = <<>>
    /\ events = <<>>
    /\ tk_calls = NoTkCalls
    /\ ret = NoCall

(***************************************************************************)
(* rspamd_stat_init                                                        *)
(***************************************************************************)
\* the struct rspamd_config a call of rspamd_stat_init is given: the one the
\* context holds, or one the caller has parsed for this call
CfgPtrs == {ctx.cfg, ninits + 1} \ {NULL}

\* the objects that may still be allocated while the context lives
FreeObjects ==
    IF stat_ctx = NULL THEN MaxObjects
    ELSE MaxObjects - (Len(cl_heap) + Len(st_heap) + Len(aelts))

\* the address g_slice_alloc0 returns for a new context: one per lifetime
NewCtxAddr == ncloses + 1

\* g_assert compiled out
AssertDisabled(ptr) == TRUE

\* g_assert (ptr != NULL)
AssertOk(ptr) == ptr # NULL

\* lines 101-121: the context is made or reused, its fields are set, the
\* configuration is retained and cur is set to the first definition
InitBegin(p, c) ==
    /\ pc = "idle"
    /\ ninits < MaxInits
    /\ stat_ctx' = IF stat_ctx = NULL THEN NewCtxAddr ELSE stat_ctx
    /\ ctx' = [(IF stat_ctx = NULL THEN ZeroCtx ELSE ctx) EXCEPT
                    !.backends_subrs = stat_backends,
                    !.backends_count = Len(stat_backends),
                    !.classifiers_subrs = stat_classifiers,
                    !.classifiers_count = Len(stat_classifiers),
                    !.tokenizers_subrs = stat_tokenizers,
                    !.tokenizers_count = Len(stat_tokenizers),
                    !.caches_subrs = stat_caches,
                    !.caches_count = Len(stat_caches),
                    !.cfg = p,
                    !.statfiles = <<>>,
                    !.classifiers = <<>>,
                    !.async_elts = <<>>,
                    !.queue = ninits + 1]
    /\ cfg_refs' = RefRetain(cfg_refs, p)
    /\ cfg' = [ptr |-> p, classifiers |-> c]
    /\ cur' = 1
    /\ curst' = 1
    /\ bk' = NULL
    /\ cl' = NULL
    /\ cache_obj' = NullObj
    /\ cache_name' = NullStr
    /\ pc' = "init_loop"
    /\ ninits' = ninits + 1
    /\ cl_heap' = IF stat_ctx = NULL THEN <<>> ELSE cl_heap
    /\ st_heap' = IF stat_ctx = NULL THEN <<>> ELSE st_heap
    /\ aelts' = IF stat_ctx = NULL THEN <<>> ELSE aelts
    /\ drained' = IF stat_ctx = NULL THEN <<>> ELSE drained
    /\ events' = IF stat_ctx = NULL THEN <<>> ELSE events
    /\ tk_calls' = IF stat_ctx = NULL THEN NoTkCalls ELSE tk_calls
    /\ ret' = NoCall
    /\ UNCHANGED <<failed_assert, close_locals, ncloses>>

\* the tokenizer resolved again for every definition
AlwaysNeedTokenizer(c) == TRUE

\* the tokenizer never resolved
NeverNeedTokenizer(c) == FALSE

\* line 132: stat_ctx->tkcf == NULL
NeedTokenizer(c) == c.tkcf = NullCf

\* tokenizer->get_config (cfg->cfg_pool, clf->tokenizer, NULL): the configuration
\* built from the definition's tokenizer section
get_config(tokenizer) == [type |-> "osb", from |-> tokenizer]

\* lines 148-159: the new values of the locals cache_obj and cache_name
CacheObjAfter(clf, old) ==
    IF clf.opts # NullObj THEN FindCache(clf.opts) ELSE old

CacheNameAfter(clf, old) ==
    IF clf.opts # NullObj /\ FindCache(clf.opts) # NullObj
          /\ FindName(FindCache(clf.opts)) # NullStr
    THEN FindName(FindCache(clf.opts))
    ELSE old

\* the first g_assert of lines 124-163 that fails for definition clf, or 0
FailedAssert(clf, c, old_name) ==
    IF ~AssertOk(rspamd_stat_get_backend(clf.backend)) THEN 126
    ELSE IF NeedTokenizer(c)
            /\ ~AssertOk(rspamd_stat_get_tokenizer(clf.tokenizer)) THEN 134
    ELSE IF ~AssertOk(rspamd_stat_get_classifier(clf.classifier)) THEN 144
    ELSE IF ~AssertOk(rspamd_stat_get_cache(CacheNameAfter(clf, old_name)))
         THEN 162
    ELSE 0

\* lines 124-165: one classifier definition up to the statfiles loop
InitClassifier ==
    /\ pc = "init_loop"
    /\ cur <= Len(cfg.classifiers)
    /\ LET clf == cfg.classifiers[cur]
           fail == FailedAssert(clf, ctx, cache_name)
           \* line n was passed
           past(n) == fail = 0 \/ fail > n
           needtk == NeedTokenizer(ctx)
           newcl == [cfg |-> clf,
                     ctx |-> stat_ctx,
                     boot |-> ninits,
                     statfiles_ids |-> <<>>,
                     subrs |-> IF past(126) /\ past(134)
                               THEN rspamd_stat_get_classifier(clf.classifier)
                               ELSE NULL,
                     cache |-> IF past(144)
                               THEN rspamd_stat_get_cache(
                                        CacheNameAfter(clf, cache_name))
                               ELSE NULL,
                     cache_name |-> IF past(144)
                                    THEN CacheNameAfter(clf, cache_name)
                                    ELSE NullStr,
                     cachecf |-> IF past(162)
                                 THEN [opts |-> CacheObjAfter(clf, cache_obj)]
                                 ELSE NullObj,
                     pos |-> cur,
                     inited |-> past(144),
                     cache_closes |-> 0,
                     freed |-> FALSE]
       IN
       /\ bk' = rspamd_stat_get_backend(clf.backend)
       /\ ctx' = [ctx EXCEPT
                    !.tokenizer = IF needtk /\ past(126)
                                  THEN rspamd_stat_get_tokenizer(clf.tokenizer)
                                  ELSE @,
                    !.tkcf = IF needtk /\ past(134)
                             THEN get_config(clf.tokenizer)
                             ELSE @]
       /\ cl_heap' = IF past(134) THEN Append(cl_heap, newcl) ELSE cl_heap
       /\ cl' = IF past(134) THEN Len(cl_heap) + 1 ELSE cl
       /\ cache_obj' = IF past(144) THEN CacheObjAfter(clf, cache_obj)
                       ELSE cache_obj
       /\ cache_name' = IF past(144) THEN CacheNameAfter(clf, cache_name)
                        ELSE cache_name
       /\ failed_assert' = fail
       /\ pc' = IF fail = 0 THEN "init_statfiles" ELSE "aborted"
       /\ curst' = 1
       /\ tk_calls' = [lookups |-> IF needtk /\ past(126) THEN tk_calls.lookups + 1
                                   ELSE tk_calls.lookups,
                        configs |-> IF needtk /\ past(134) THEN tk_calls.configs + 1
                                   ELSE tk_calls.configs]
    /\ UNCHANGED <<stat_ctx, st_heap, aelts, cfg_refs, cfg, cur, close_locals,
                   ninits, ncloses, drained, events, ret>>

\* the statfile kept whatever bk->init returned
AlwaysAccepted(bkcf) == TRUE

\* line 177: st->bkcf == NULL is the failure of the backend
StatfileAccepted(bkcf) == bkcf # NULL

\* the id not taken from the length of the array
FirstStatfileId(statfiles) == 0

\* the id taken after the statfile is added
StatfileIdAfterAdd(statfiles) == Len(statfiles) + 1

\* line 184: st->id = stat_ctx->statfiles->len
NextStatfileId(statfiles) == Len(statfiles)

\* lines 168-189: one statfile definition; ok is the outcome of bk->init
InitStatfile(ok) ==
    /\ pc = "init_statfiles"
    /\ curst <= Len(cfg.classifiers[cur].statfiles)
    /\ LET addr == Len(st_heap) + 1
           bkcf == IF ok THEN addr ELSE NULL
           accepted == StatfileAccepted(bkcf)
           id == IF accepted THEN NextStatfileId(ctx.statfiles) ELSE 0
           st == [classifier |-> cl,
                  stcf |-> cfg.classifiers[cur].statfiles[curst],
                  backend |-> bk,
                  bkcf |-> bkcf,
                  id |-> id,
                  ctx |-> stat_ctx,
                  boot |-> ninits,
                  clf |-> cur,
                  stf |-> curst,
                  accepted |-> accepted,
                  closes |-> 0,
                  freed |-> ~accepted]
       IN
       /\ st_heap' = Append(st_heap, st)
       /\ ctx' = IF accepted
                 THEN [ctx EXCEPT !.statfiles = Append(@, addr)]
                 ELSE ctx
       /\ cl_heap' = IF accepted
                     THEN [cl_heap EXCEPT ![cl].statfiles_ids = Append(@, id)]
                     ELSE cl_heap
    /\ curst' = curst + 1
    /\ UNCHANGED <<stat_ctx, aelts, cfg_refs, pc, failed_assert, cfg, cur, bk, cl,
                   cache_obj, cache_name, close_locals, ninits, ncloses, drained,
                   events, tk_calls, ret>>

\* lines 192-194: the classifier is added and cur moves on
InitClassifierDone ==
    /\ pc = "init_statfiles"
    /\ curst > Len(cfg.classifiers[cur].statfiles)
    /\ ctx' = [ctx EXCEPT !.classifiers = Append(@, cl)]
    /\ cur' = cur + 1
    /\ pc' = "init_loop"
    /\ UNCHANGED <<stat_ctx, cl_heap, st_heap, aelts, cfg_refs, failed_assert,
                   cfg, curst, bk, cl, cache_obj, cache_name, close_locals,
                   ninits, ncloses, drained, events, tk_calls, ret>>

\* line 196: cur == NULL, rspamd_stat_init returns and its locals are gone
InitDone ==
    /\ pc = "init_loop"
    /\ cur > Len(cfg.classifiers)
    /\ pc' = "idle"
    /\ DropInitLocals
    /\ UNCHANGED <<stat_ctx, ctx, cl_heap, st_heap, aelts, cfg_refs,
                   failed_assert, close_locals, ninits, ncloses, drained,
                   events, tk_calls, ret>>

rspamd_stat_init ==
    \/ \E p \in CfgPtrs, c \in Configs(FreeObjects) : InitBegin(p, c)
    \/ InitClassifier
    \/ \E ok \in BOOLEAN : InitStatfile(ok)
    \/ InitClassifierDone
    \/ InitDone

(***************************************************************************)
(* Providers registering async elements while the context is in use        *)
(***************************************************************************)
\* g_queue_push_tail (stat_ctx->async_elts, elt) of a new element
Enqueue(cleanup) ==
    /\ pc = "idle"
    /\ stat_ctx # NULL
    /\ FreeObjects > 0
    /\ aelts' = Append(aelts, [cleanup |-> cleanup, queue |-> ctx.queue,
                               called |-> 0, visits |-> 0])
    /\ ctx' = [ctx EXCEPT !.async_elts = Append(@, Len(aelts) + 1)]
    /\ ret' = NoCall
    /\ UNCHANGED <<stat_ctx, cl_heap, st_heap, cfg_refs, pc, failed_assert,
                   init_locals, close_locals, ninits, ncloses, drained,
                   events, tk_calls>>

(***************************************************************************)
(* rspamd_stat_close                                                       *)
(***************************************************************************)
\* lines 209-212: st_ctx = rspamd_stat_get_ctx (), the assertion, i = 0
CloseBegin ==
    /\ pc = "idle"
    /\ IF AssertOk(rspamd_stat_get_ctx)
       THEN /\ pc' = "close_loop"
            /\ drained' = <<>>
            /\ events' = <<>>
            /\ UNCHANGED failed_assert
       ELSE /\ pc' = "aborted"
            /\ failed_assert' = 210
            /\ UNCHANGED <<drained, events>>
    /\ i' = 1
    /\ j' = 1
    /\ acur' = NULL
    /\ ret' = NoCall
    /\ UNCHANGED <<stat_ctx, ctx, cl_heap, st_heap, aelts, cfg_refs,
                   init_locals, ninits, ncloses, tk_calls>>

\* g_ptr_array_index (st_ctx->statfiles, id) reads inside the array
InRange(id, statfiles) == id >= 0 /\ id < Len(statfiles)

\* an entry of events: what was done, and to which object
Ev(op, obj) == [op |-> op, obj |-> obj]

\* the statfile freed before its backend is closed
StatfileFreedFirst(st) == <<Ev("free_statfile", st), Ev("backend_close", st)>>

\* lines 218-220: st->backend->close (st->bkcf), then g_slice_free1 of st
StatfileEvents(st) == <<Ev("backend_close", st), Ev("free_statfile", st)>>

\* lines 223-224: g_array_free of cl->statfiles_ids, then g_slice_free1 of cl
ClassifierEvents(c) == <<Ev("free_ids", c), Ev("free_classifier", c)>>

\* lines 239-246: the queue, the two arrays, the configuration reference, the
\* context, and last the static pointer
FreeEvents(p) ==
    <<Ev("free_queue", p), Ev("free_statfiles", p), Ev("free_classifiers", p),
      Ev("release_cfg", p), Ev("free_ctx", p), Ev("reset_stat_ctx", p)>>

\* lines 216-220: the backend of one owned statfile is closed, the statfile
\* freed; an id outside the array, or the statfile of an id already freed, ends
\* the process at the read of line 217
CloseStatfile ==
    /\ pc = "close_loop"
    /\ i <= Len(ctx.classifiers)
    /\ j <= Len(cl_heap[ctx.classifiers[i]].statfiles_ids)
    /\ LET id == cl_heap[ctx.classifiers[i]].statfiles_ids[j]
       IN IF InRange(id, ctx.statfiles) /\ ~st_heap[ctx.statfiles[id + 1]].freed
          THEN /\ st_heap' = [st_heap EXCEPT
                                ![ctx.statfiles[id + 1]].closes = @ + 1,
                                ![ctx.statfiles[id + 1]].freed = TRUE]
               /\ events' = events \o StatfileEvents(ctx.statfiles[id + 1])
               /\ j' = j + 1
               /\ UNCHANGED <<pc, failed_assert>>
          ELSE /\ pc' = "aborted"
               /\ failed_assert' = 217
               /\ UNCHANGED <<st_heap, j, events>>
    /\ UNCHANGED <<stat_ctx, ctx, cl_heap, aelts, cfg_refs, init_locals, i, acur,
                   ninits, ncloses, drained, tk_calls, ret>>

\* lines 223-224: the id array and the classifier are freed
CloseClassifier ==
    /\ pc = "close_loop"
    /\ i <= Len(ctx.classifiers)
    /\ j > Len(cl_heap[ctx.classifiers[i]].statfiles_ids)
    /\ cl_heap' = [cl_heap EXCEPT ![ctx.classifiers[i]].freed = TRUE]
    /\ events' = events \o ClassifierEvents(ctx.classifiers[i])
    /\ i' = i + 1
    /\ j' = 1
    /\ UNCHANGED <<stat_ctx, ctx, st_heap, aelts, cfg_refs, pc, failed_assert,
                   init_locals, acur, ninits, ncloses, drained, tk_calls, ret>>

\* st_ctx->async_elts->head: the first link of the queue, NULL if it is empty
QueueHead(q) == IF q = <<>> THEN NULL ELSE 1

\* line 227: cur = st_ctx->async_elts->head
CloseDrainBegin ==
    /\ pc = "close_loop"
    /\ i > Len(ctx.classifiers)
    /\ acur' = QueueHead(ctx.async_elts)
    /\ pc' = "close_drain"
    /\ UNCHANGED <<stat_ctx, ctx, cl_heap, st_heap, aelts, cfg_refs,
                   failed_assert, init_locals, i, j, ninits, ncloses, drained,
                   events, tk_calls, ret>>

\* the callback invoked without the test of line 232
CleanupUnchecked(aelt) == TRUE

\* line 232: aelt->cleanup is set
HasCleanup(aelt) == aelt.cleanup

\* line 236: g_list_next (cur): the link after the one at pos, NULL after the
\* last link the queue has when cur->next is read
ListNext(pos) == IF pos < Len(ctx.async_elts) THEN pos + 1 ELSE NULL

\* lines 229-236: one element of the queue
CloseDrainElt ==
    /\ pc = "close_drain"
    /\ acur # NULL
    /\ LET a == ctx.async_elts[acur]
       IN /\ aelts' = [aelts EXCEPT
                         ![a].visits = @ + 1,
                         ![a].called = IF HasCleanup(aelts[a]) THEN @ + 1 ELSE @]
          /\ drained' = Append(drained, a)
          /\ events' = IF HasCleanup(aelts[a])
                       THEN Append(events, Ev("cleanup", a))
                       ELSE events
    /\ acur' = ListNext(acur)
    /\ UNCHANGED <<stat_ctx, ctx, cl_heap, st_heap, cfg_refs, pc, failed_assert,
                   init_locals, i, j, ninits, ncloses, tk_calls, ret>>

\* the static pointer left as it is
KeepCtx(p) == p

\* line 246: stat_ctx = NULL
ResetCtx(p) == NULL

\* lines 239-246: the queue, the arrays and the context are freed, the
\* configuration is released and the static pointer is reset
CloseFree ==
    /\ pc = "close_drain"
    /\ acur = NULL
    /\ events' = events \o FreeEvents(stat_ctx)
    /\ cfg_refs' = RefRelease(cfg_refs, ctx.cfg)
    /\ stat_ctx' = ResetCtx(stat_ctx)
    /\ ctx' = ZeroCtx
    /\ pc' = "idle"
    /\ ncloses' = ncloses + 1
    /\ DropCloseLocals
    /\ UNCHANGED <<cl_heap, st_heap, aelts, failed_assert, init_locals,
                   ninits, drained, tk_calls, ret>>

rspamd_stat_close ==
    \/ CloseBegin
    \/ CloseStatfile
    \/ CloseClassifier
    \/ CloseDrainBegin
    \/ CloseDrainElt
    \/ CloseFree

RegisterAsync == \E cleanup \in BOOLEAN : Enqueue(cleanup)

Next ==
    \/ rspamd_stat_init
    \/ rspamd_stat_close
    \/ RegisterAsync

Spec == Init /\ [][Next]_vars

(***************************************************************************)
(* Calls of the four accessors from outside rspamd_stat_init               *)
(***************************************************************************)
Kinds == {"classifier", "backend", "tokenizer", "cache"}

\* the static table of a kind
TableOf(kind) ==
    CASE kind = "classifier" -> stat_classifiers
      [] kind = "backend" -> stat_backends
      [] kind = "tokenizer" -> stat_tokenizers
      [] kind = "cache" -> stat_caches

\* the default name of a kind
DefaultOf(kind) ==
    CASE kind = "classifier" -> RSPAMD_DEFAULT_CLASSIFIER
      [] kind = "backend" -> RSPAMD_DEFAULT_BACKEND
      [] kind = "tokenizer" -> RSPAMD_DEFAULT_TOKENIZER
      [] kind = "cache" -> RSPAMD_DEFAULT_CACHE

\* the accessor of a kind
Accessor(kind, name) ==
    CASE kind = "classifier" -> rspamd_stat_get_classifier(name)
      [] kind = "backend" -> rspamd_stat_get_backend(name)
      [] kind = "tokenizer" -> rspamd_stat_get_tokenizer(name)
      [] kind = "cache" -> rspamd_stat_get_cache(name)

\* the line where the accessor of a kind first reads through stat_ctx
AccessorLine(kind) ==
    CASE kind = "classifier" -> 264
      [] kind = "backend" -> 282
      [] kind = "tokenizer" -> 300
      [] kind = "cache" -> 318

AccessorLines == {AccessorLine(kind) : kind \in Kinds}

\* the names an accessor is called with: NULL, the empty string, every name of
\* its table, and a name of no table
LookupNames(kind) ==
    {NullStr, "", "nosuch"} \cup {TableOf(kind)[k] : k \in DOMAIN TableOf(kind)}

\* one call of an accessor while neither rspamd_stat_init nor
\* rspamd_stat_close runs, up to its return statement
LookupCall(kind, name) ==
    /\ pc = "idle"
    /\ LET val == Accessor(kind, name)
       IN IF val = SIGSEGV
          THEN /\ pc' = "aborted"
               /\ failed_assert' = AccessorLine(kind)
               /\ ret' = NoCall
          ELSE /\ pc' = "lookup"
               /\ ret' = [kind |-> kind, name |-> name, val |-> val]
               /\ UNCHANGED failed_assert
    /\ UNCHANGED <<stat_ctx, ctx, cl_heap, st_heap, aelts, cfg_refs, init_locals,
                   close_locals, ninits, ncloses, drained, events, tk_calls>>

\* the caller has taken the value returned
LookupReturn ==
    /\ pc = "lookup"
    /\ pc' = "idle"
    /\ ret' = NoCall
    /\ UNCHANGED <<stat_ctx, ctx, cl_heap, st_heap, aelts, cfg_refs,
                   failed_assert, init_locals, close_locals, ninits, ncloses,
                   drained, events, tk_calls>>

Lookup ==
    \/ \E kind \in Kinds : \E name \in LookupNames(kind) : LookupCall(kind, name)
    \/ LookupReturn

\* rspamd_stat_close when no provider has registered an element: the queue is
\* empty and the loop of lines 229-237 is not entered
rspamd_stat_close_empty_queue ==
    \/ CloseBegin
    \/ CloseStatfile
    \/ CloseClassifier
    \/ CloseDrainBegin
    \/ CloseFree

\* the runs made of calls of rspamd_stat_init, rspamd_stat_close and the
\* accessors, no provider registering an element
NextLookup ==
    \/ rspamd_stat_init
    \/ rspamd_stat_close_empty_queue
    \/ Lookup

SpecLookup == Init /\ [][NextLookup]_vars

(***************************************************************************)
(* Providers registering async elements from another thread while          *)
(* rspamd_stat_close runs: nothing in rspamd_stat_close excludes it        *)
(***************************************************************************)
ConcurrentEnqueue(cleanup) ==
    /\ pc \in {"close_loop", "close_drain"}
    /\ FreeObjects > 0
    /\ aelts' = Append(aelts, [cleanup |-> cleanup, queue |-> ctx.queue,
                               called |-> 0, visits |-> 0])
    /\ ctx' = [ctx EXCEPT !.async_elts = Append(@, Len(aelts) + 1)]
    /\ UNCHANGED <<stat_ctx, cl_heap, st_heap, cfg_refs, pc, failed_assert,
                   init_locals, close_locals, ninits, ncloses, drained,
                   events, tk_calls, ret>>

RegisterAsyncConcurrently == \E cleanup \in BOOLEAN : ConcurrentEnqueue(cleanup)

NextConcurrent ==
    \/ Next
    \/ RegisterAsyncConcurrently

SpecConcurrent == Init /\ [][NextConcurrent]_vars

(***************************************************************************)
(* Properties                                                              *)
(***************************************************************************)
Statfiles_ == 1..Len(st_heap)

Classifiers_ == 1..Len(cl_heap)

\* rspamd_stat_init is running
InInit == pc \in {"init_loop", "init_statfiles"}

\* rspamd_stat_close is running
InClose == pc \in {"close_loop", "close_drain"}

\* rspamd_stat_close has returned and rspamd_stat_init was not called since
AfterClose == pc = "idle" /\ ncloses > 0 /\ stat_ctx = NULL

\* C1: every statfile at position k of the context's collection has id k - 1
\* (ids count from 0), and no id is given to two statfiles accepted while one
\* context lives.
C1_IdStability ==
    /\ stat_ctx # NULL =>
          \A k \in 1..Len(ctx.statfiles) : st_heap[ctx.statfiles[k]].id = k - 1
    /\ \A a, b \in Statfiles_ :
          (/\ a # b
           /\ st_heap[a].accepted
           /\ st_heap[b].accepted
           /\ st_heap[a].ctx = st_heap[b].ctx)
          => st_heap[a].id # st_heap[b].id

\* the statfiles the running call of rspamd_stat_init has allocated, in order
BootStatfiles == SelectSeq([a \in Statfiles_ |-> a], LAMBDA a : st_heap[a].boot = ninits)

\* the statfile definitions before position (c, s) of the configuration, in order
RECURSIVE DefsBefore(_, _)
DefsBefore(c, s) ==
    IF c = 0 THEN <<>>
    ELSE IF s = 0 THEN DefsBefore(c - 1, Len(cfg.classifiers[c - 1].statfiles))
    ELSE Append(DefsBefore(c, s - 1), <<c, s>>)

\* C2: a failed backend init stops nothing and leaves no trace: while
\* rspamd_stat_init runs, bk->init has been invoked for every statfile
\* definition before the current position, every classifier definition before
\* it has its classifier in the collection, the statfiles whose init failed are
\* in neither the collection nor an id array, and the others have the
\* consecutive ids 0, 1, ... in the order of their definitions.
C2_PartialFailureIsolation ==
    InInit =>
      LET upto == IF pc = "init_loop" THEN DefsBefore(cur, 0)
                  ELSE DefsBefore(cur, curst - 1)
          made == BootStatfiles
          ok == SelectSeq(made, LAMBDA a : st_heap[a].bkcf # NULL)
      IN /\ Len(made) = Len(upto)
         /\ \A k \in 1..Len(made) :
               <<st_heap[made[k]].clf, st_heap[made[k]].stf>> = upto[k]
         /\ Len(ctx.classifiers) = cur - 1
         /\ ctx.statfiles = ok
         /\ \A k \in 1..Len(ok) : st_heap[ok[k]].id = k - 1
         /\ \A c \in Classifiers_ :
               cl_heap[c].boot = ninits =>
                  cl_heap[c].statfiles_ids =
                     SelectSeq([k \in 1..Len(ok) |-> k - 1],
                               LAMBDA id : st_heap[ok[id + 1]].classifier = c)

\* C2 witness: rspamd_stat_init is about to return, a backend init has failed,
\* a later statfile got id 0 and a later classifier definition was processed
C2_Witness ==
    /\ pc = "init_loop"
    /\ cur > Len(cfg.classifiers)
    /\ Len(ctx.classifiers) = 2
    /\ \E a, b \in Statfiles_ :
          /\ a < b
          /\ st_heap[a].bkcf = NULL
          /\ st_heap[b].bkcf # NULL
          /\ st_heap[b].id = 0
          /\ cl_heap[ctx.classifiers[1]].statfiles_ids = <<0>>
          /\ Len(ctx.statfiles) = 1

\* C3: after rspamd_stat_close has returned, rspamd_stat_get_ctx returns NULL
\* and every statfile accepted since the close before has been closed exactly
\* once.
C3_TeardownCompleteness ==
    AfterClose =>
       /\ rspamd_stat_get_ctx = NULL
       /\ \A a \in Statfiles_ : st_heap[a].accepted => st_heap[a].closes = 1

\* the "cache" object of definition d itself, or NULL
OwnCacheObj(d) == IF d.opts = NullObj THEN NullObj ELSE FindCache(d.opts)

\* the cache name of definition d itself, or NULL
OwnCacheName(d) ==
    IF OwnCacheObj(d) = NullObj THEN NullStr ELSE FindName(OwnCacheObj(d))

\* C4: every classifier whose cache was initialised has the cache descriptor its
\* own definition names (the default one if it names none), and its cache was
\* initialised with the cache object of its own definition (NULL if none).
C4_PerDefinitionCache ==
    \A c \in Classifiers_ :
       (stat_ctx # NULL /\ cl_heap[c].cachecf # NullObj) =>
          /\ cl_heap[c].cache = rspamd_stat_get_cache(OwnCacheName(cl_heap[c].cfg))
          /\ cl_heap[c].cachecf.opts = OwnCacheObj(cl_heap[c].cfg)

\* C5: while a context exists and a classifier definition has been processed in
\* it, its tokenizer and tokenizer configuration are those of the first
\* definition processed, whatever the later definitions name.
C5_SingleSharedTokenizer ==
    (stat_ctx # NULL /\ cl_heap # <<>>) =>
       /\ ctx.tokenizer = rspamd_stat_get_tokenizer(cl_heap[1].cfg.tokenizer)
       /\ ctx.tkcf = get_config(cl_heap[1].cfg.tokenizer)

\* C5 witness: a second definition that names another tokenizer was processed
C5_Witness ==
    /\ stat_ctx # NULL
    /\ Len(cl_heap) >= 2
    /\ cl_heap[2].cachecf # NullObj
    /\ rspamd_stat_get_tokenizer(cl_heap[2].cfg.tokenizer)
          # rspamd_stat_get_tokenizer(cl_heap[1].cfg.tokenizer)

\* the definition rspamd_stat_init is about to process
AtDefinition == pc = "init_loop" /\ cur <= Len(cfg.classifiers)

\* definition d names a provider of some kind that is not in the tables
NamesUnresolved(d) ==
    \/ rspamd_stat_get_backend(d.backend) = NULL
    \/ rspamd_stat_get_classifier(d.classifier) = NULL
    \/ rspamd_stat_get_tokenizer(d.tokenizer) = NULL
    \/ rspamd_stat_get_cache(OwnCacheName(d)) = NULL

\* as NamesUnresolved, the tokenizer counting only while the context has no
\* tokenizer configuration
NamesUnresolvedHere(d) ==
    \/ rspamd_stat_get_backend(d.backend) = NULL
    \/ rspamd_stat_get_classifier(d.classifier) = NULL
    \/ ctx.tkcf = NullCf /\ rspamd_stat_get_tokenizer(d.tokenizer) = NULL
    \/ rspamd_stat_get_cache(OwnCacheName(d)) = NULL

\* the step aborts rspamd_stat_init at the current definition: no classifier is
\* added, no backend is initialised, and of get_config, init_func and the cache
\* init none that comes after the failed assertion is invoked
AbortsHere ==
    /\ pc' = "aborted"
    /\ failed_assert' \in {126, 134, 144, 162}
    /\ ctx'.classifiers = ctx.classifiers
    /\ ctx'.statfiles = ctx.statfiles
    /\ st_heap' = st_heap
    /\ SubSeq(cl_heap', 1, Len(cl_heap)) = cl_heap
    /\ \A c \in (Len(cl_heap) + 1)..Len(cl_heap') :
          /\ cl_heap'[c].cachecf = NullObj
          /\ failed_assert' = 144 => ~cl_heap'[c].inited
    /\ failed_assert' \in {126, 134} => (ctx'.tkcf = ctx.tkcf /\ cl_heap' = cl_heap)

\* nothing runs once an assertion has failed
StaysAborted == pc = "aborted" => UNCHANGED vars

\* C6 as stated: a definition that names any provider not in the tables aborts
\* rspamd_stat_init at that definition, for good.
C6_FatalConfigurationFailure ==
    [][/\ (AtDefinition /\ NamesUnresolved(cfg.classifiers[cur])) => AbortsHere
       /\ StaysAborted]_vars

\* C6 as amended: the same for a backend, a classifier or a cache not in the
\* tables, and for a tokenizer not in the tables when the context has no
\* tokenizer configuration yet.
C6_FatalResolutionAborts ==
    [][/\ (AtDefinition /\ NamesUnresolvedHere(cfg.classifiers[cur])) => AbortsHere
       /\ StaysAborted]_vars

\* C6 witness: the second definition of a configuration failed to resolve
C6_Witness ==
    /\ pc = "aborted"
    /\ failed_assert \in {126, 134, 144, 162}
    /\ cur = 2
    /\ Len(ctx.classifiers) = 1

\* C7 as stated: rspamd_stat_close returns from whatever state it is called in.
C7_TeardownAlwaysRestores == ~(pc = "aborted" /\ failed_assert = 210)

\* C7 as amended: called while a context exists, rspamd_stat_close goes on and
\* leaves the static pointer NULL when it returns; called while none exists,
\* it fails its assertion.
C7_TeardownRestoresNoContext ==
    [][/\ (InClose /\ pc' = "idle") => stat_ctx' = NULL
       /\ (pc = "idle" /\ pc' \in {"close_loop", "aborted"}) =>
             IF stat_ctx # NULL
             THEN pc' = "close_loop"
             ELSE pc' = "aborted" /\ failed_assert' = 210 /\ stat_ctx' = NULL
       /\ InClose => stat_ctx # NULL]_vars

\* C7 witness: rspamd_stat_close was called again after it had returned
C7_Witness ==
    /\ ncloses >= 1
    /\ pc = "aborted"
    /\ failed_assert = 210
    /\ stat_ctx = NULL

\* C8: when rspamd_stat_close has returned, this code holds no reference on any
\* configuration it was given.
C8_BalancedConfigOwnership == AfterClose => cfg_refs = EmptyBag

\* C9: when rspamd_stat_close has returned, every backend state and every cache
\* state made since the close before has been passed to its provider's close.
C9_TeardownReleasesProviderState ==
    AfterClose =>
       /\ \A a \in Statfiles_ : st_heap[a].bkcf # NULL => st_heap[a].closes >= 1
       /\ \A c \in Classifiers_ :
             cl_heap[c].cachecf # NullObj => cl_heap[c].cache_closes >= 1

\* the elements that were pushed on the queue made by the last rspamd_stat_init
LastQueue ==
    SelectSeq([a \in 1..Len(aelts) |-> a], LAMBDA a : aelts[a].queue = ninits)

\* C10: the drain visits the elements of the queue in the order they were
\* pushed, each once; the callback of an element runs once if it has one and
\* the element was visited, and not otherwise; no callback runs outside the
\* drain.
C10_AsyncCleanupDrain ==
    /\ pc = "close_drain" =>
          drained = IF acur = NULL THEN ctx.async_elts
                    ELSE SubSeq(ctx.async_elts, 1, acur - 1)
    /\ AfterClose => drained = LastQueue
    /\ \A a \in 1..Len(aelts) :
          /\ aelts[a].visits = Cardinality({k \in 1..Len(drained) : drained[k] = a})
          /\ aelts[a].visits <= 1
          /\ aelts[a].called = IF aelts[a].cleanup THEN aelts[a].visits ELSE 0
          /\ (stat_ctx # NULL /\ ~InClose) => aelts[a].called = 0

\* C10 witness: a queue of an element with a callback and one without was drained
C10_Witness ==
    /\ AfterClose
    /\ Len(drained) >= 2
    /\ aelts[drained[1]].cleanup # aelts[drained[2]].cleanup

\* C11: an accessor called with NULL or the empty string returns what it
\* returns for the default name of its kind.
C11_DefaultSubstitution ==
    (pc = "lookup" /\ ret.name \in {NullStr, ""}) =>
       ret.val = Accessor(ret.kind, DefaultOf(ret.kind))

\* C11 witness: the tokenizer accessor, called with the empty string while the
\* context holds a classifier, returned the second entry of its table
C11_Witness ==
    /\ pc = "lookup"
    /\ ret.kind = "tokenizer"
    /\ ret.name = ""
    /\ ret.val = 2
    /\ Len(ctx.classifiers) >= 1

\* C12: an accessor called with a non-empty name returns the first entry of
\* the static table of its kind that has exactly this name, and NULL if and
\* only if the table has none, whatever the context holds.
C12_ExactNameResolution ==
    (pc = "lookup" /\ ret.name \notin {NullStr, ""}) =>
       LET t == TableOf(ret.kind)
       IN /\ ret.val = NULL <=> \A k \in DOMAIN t : t[k] # ret.name
          /\ ret.val # NULL =>
                /\ ret.val \in DOMAIN t
                /\ t[ret.val] = ret.name
                /\ \A m \in 1..(ret.val - 1) : t[m] # ret.name

\* C12 witness: the backend accessor returned the second entry of its table
\* while the context holds statfiles
C12_Witness ==
    /\ pc = "lookup"
    /\ ret.kind = "backend"
    /\ ret.name = "sqlite3"
    /\ ret.val = 2
    /\ Len(ctx.statfiles) >= 1

\* C13: no element is pushed on the queue while the drain walks it, and every
\* element pushed on the queue has been visited when rspamd_stat_close returns.
C13_AsyncQueueMutualExclusion ==
    [][/\ (pc = "close_drain" /\ pc' = "close_drain") =>
             ctx'.async_elts = ctx.async_elts
       /\ (pc = "close_drain" /\ pc' = "idle") =>
             \A a \in 1..Len(aelts') :
                aelts'[a].queue = ninits' => aelts'[a].visits = 1]_vars

\* the position of the first entry e of events, 0 if there is none
EvPos(e) ==
    IF \E k \in 1..Len(events) : events[k] = e
    THEN CHOOSE k \in 1..Len(events) :
            events[k] = e /\ \A m \in 1..(k - 1) : events[m] # e
    ELSE 0

\* e2 has not happened, or e1 has happened before it
Before(e1, e2) == EvPos(e2) # 0 => (EvPos(e1) # 0 /\ EvPos(e1) < EvPos(e2))

\* C14: in one rspamd_stat_close, the backend of a statfile is closed before
\* the statfile is freed, the statfiles of a classifier are freed before its id
\* array, and the id array before the classifier; every classifier is freed
\* before the first cleanup callback runs; and after the drain come the release
\* of the two arrays, of the configuration reference, of the context and the
\* reset of the static pointer, in this order, the reset last.
C14_TeardownOrdering ==
    /\ \A a \in Statfiles_ :
          /\ Before(Ev("backend_close", a), Ev("free_statfile", a))
          /\ (st_heap[a].accepted /\ st_heap[a].boot = ninits) =>
                Before(Ev("free_statfile", a),
                       Ev("free_ids", st_heap[a].classifier))
    /\ \A c \in Classifiers_ :
          Before(Ev("free_ids", c), Ev("free_classifier", c))
    /\ \A k \in 1..Len(events) :
          /\ events[k].op = "cleanup" =>
                \A c \in Classifiers_ :
                   cl_heap[c].boot = ninits =>
                      EvPos(Ev("free_classifier", c)) \in 1..(k - 1)
          /\ events[k].op = "free_statfiles" =>
                /\ Len(events) = k + 4
                /\ events[k + 1].op = "free_classifiers"
                /\ events[k + 2].op = "release_cfg"
                /\ events[k + 3].op = "free_ctx"
                /\ events[k + 4].op = "reset_stat_ctx"
                /\ \A m \in 1..(k - 1) :
                      events[m].op \in {"backend_close", "free_statfile", "free_ids",
                                        "free_classifier", "cleanup", "free_queue"}
          /\ events[k].op \in {"free_classifiers", "release_cfg", "free_ctx",
                                "reset_stat_ctx"} =>
                \E m \in 1..(k - 1) : events[m].op = "free_statfiles"
    /\ (AfterClose /\ cl_heap # <<>>) => events[Len(events)].op = "reset_stat_ctx"
    /\ (stat_ctx # NULL /\ events # <<>>) =>
          events[Len(events)].op # "reset_stat_ctx"

\* C14 witness: rspamd_stat_close has returned after it closed a statfile, freed
\* two classifiers and ran a cleanup callback
C14_Witness ==
    /\ AfterClose
    /\ \E k \in 1..Len(events) : events[k].op = "backend_close"
    /\ \E k \in 1..Len(events) : events[k].op = "cleanup"
    /\ Cardinality({k \in 1..Len(events) : events[k].op = "free_classifier"}) = 2

\* C15: when rspamd_stat_init has returned, the collections of the context hold
\* what every call since the context was made has built, in the order it was
\* built, and the ids are the positions in the statfile collection.
C15_ReentrantBootstrapAppends ==
    (pc = "idle" /\ stat_ctx # NULL) =>
       /\ ctx.classifiers = [k \in 1..Len(cl_heap) |-> k]
       /\ ctx.statfiles =
             SelectSeq([a \in Statfiles_ |-> a], LAMBDA a : st_heap[a].accepted)
       /\ \A k \in 1..Len(ctx.statfiles) : st_heap[ctx.statfiles[k]].id = k - 1

\* rspamd_stat_init has processed every definition and is about to return
InitCompleted == pc = "init_loop" /\ cur > Len(cfg.classifiers)

\* C16: when rspamd_stat_init has processed every definition, the classifier
\* collection holds one classifier for each definition, in the order of the
\* configuration; the ids of each classifier are strictly increasing and are
\* those of its successful statfile definitions, in their order; and the
\* statfile collection is as long as there were successful backend inits.
C16_OrderPreservingConstruction ==
    InitCompleted =>
       /\ Len(ctx.classifiers) = Len(cfg.classifiers)
       /\ \A k \in 1..Len(ctx.classifiers) :
             LET c == cl_heap[ctx.classifiers[k]]
                 made == SelectSeq(BootStatfiles,
                                   LAMBDA a : /\ st_heap[a].clf = k
                                              /\ st_heap[a].bkcf # NULL)
             IN /\ c.pos = k
                /\ c.cfg = cfg.classifiers[k]
                /\ \A m \in 1..(Len(c.statfiles_ids) - 1) :
                      c.statfiles_ids[m] < c.statfiles_ids[m + 1]
                /\ Len(c.statfiles_ids) = Len(made)
                /\ \A m \in 1..Len(made) :
                      /\ ctx.statfiles[c.statfiles_ids[m] + 1] = made[m]
                      /\ m > 1 => st_heap[made[m - 1]].stf < st_heap[made[m]].stf
       /\ Len(ctx.statfiles) =
             Cardinality({a \in Statfiles_ :
                            st_heap[a].boot = ninits /\ st_heap[a].bkcf # NULL})

\* C16 witness: one classifier with two successful statfiles
C16_Witness ==
    /\ InitCompleted
    /\ Len(ctx.classifiers) = 1
    /\ cl_heap[ctx.classifiers[1]].statfiles_ids = <<0, 1>>
    /\ Len(ctx.statfiles) = 2

\* the places of id in the id arrays of the classifiers the last
\* rspamd_stat_init has made
OwnersOf(id) ==
    {<<c, m>> \in Classifiers_ \X (1..MaxObjects) :
        /\ cl_heap[c].boot = ninits
        /\ m <= Len(cl_heap[c].statfiles_ids)
        /\ cl_heap[c].statfiles_ids[m] = id}

\* C17: while a context exists, every index of its statfile collection is in
\* the id array of exactly one classifier, once, and this classifier is the one
\* the statfile points back to; every id is inside the collection; the backend
\* of a statfile is the one its classifier's definition names; and
\* rspamd_stat_close never reads outside the collection or a freed statfile.
C17_OwnershipPartition ==
    /\ stat_ctx # NULL =>
          /\ \A k \in 1..Len(ctx.statfiles) :
                /\ Cardinality(OwnersOf(k - 1)) = 1
                /\ \A o \in OwnersOf(k - 1) :
                      st_heap[ctx.statfiles[k]].classifier = o[1]
                /\ st_heap[ctx.statfiles[k]].backend =
                      rspamd_stat_get_backend(
                         cl_heap[st_heap[ctx.statfiles[k]].classifier].cfg.backend)
          /\ \A c \in Classifiers_ :
                cl_heap[c].boot = ninits =>
                   \A m \in 1..Len(cl_heap[c].statfiles_ids) :
                      InRange(cl_heap[c].statfiles_ids[m], ctx.statfiles)
    /\ ~(pc = "aborted" /\ failed_assert = 217)

\* C17 witness: rspamd_stat_close, after one rspamd_stat_init, has closed the
\* statfiles of two classifiers
C17_Witness ==
    /\ pc = "close_drain"
    /\ ninits = 1
    /\ Len(ctx.classifiers) = 2
    /\ Len(ctx.statfiles) = 2
    /\ st_heap[ctx.statfiles[1]].classifier # st_heap[ctx.statfiles[2]].classifier
    /\ \A k \in 1..2 : st_heap[ctx.statfiles[k]].closes = 1

\* C18: processing a definition whose backend was found, rspamd_stat_init looks
\* a tokenizer up if and only if the context has no tokenizer configuration,
\* and calls get_config if and only if it has none and the tokenizer was found;
\* otherwise it leaves the tokenizer and its configuration alone; nothing else
\* looks a tokenizer up; and get_config is called at most once for a context.
C18_TokenizerResolutionGuard ==
    [][/\ (AtDefinition
           /\ rspamd_stat_get_backend(cfg.classifiers[cur].backend) # NULL) =>
             /\ tk_calls'.lookups =
                   tk_calls.lookups + (IF ctx.tkcf = NullCf THEN 1 ELSE 0)
             /\ tk_calls'.configs =
                   tk_calls.configs +
                   (IF /\ ctx.tkcf = NullCf
                       /\ rspamd_stat_get_tokenizer(
                             cfg.classifiers[cur].tokenizer) # NULL
                    THEN 1 ELSE 0)
             /\ ctx.tkcf # NullCf =>
                   (ctx'.tkcf = ctx.tkcf /\ ctx'.tokenizer = ctx.tokenizer)
       /\ (~AtDefinition /\ stat_ctx # NULL /\ stat_ctx' # NULL) =>
             (tk_calls' = tk_calls /\ ctx'.tkcf = ctx.tkcf)
       /\ tk_calls'.lookups <= 1
       /\ tk_calls'.configs <= 1]_vars

\* C18 witness: a second rspamd_stat_init on the same context has processed a
\* definition and no tokenizer was looked up for it
C18_Witness ==
    /\ ninits = 2
    /\ stat_ctx # NULL
    /\ tk_calls = [lookups |-> 1, configs |-> 1]
    /\ \E c \in Classifiers_ : cl_heap[c].boot = 2 /\ cl_heap[c].cachecf # NullObj
    /\ \E c \in Classifiers_ : cl_heap[c].boot = 1

\* the four table views and counts of the context are set
TablesPopulated ==
    /\ ctx.backends_subrs = stat_backends
    /\ ctx.backends_count = Len(stat_backends)
    /\ ctx.classifiers_subrs = stat_classifiers
    /\ ctx.classifiers_count = Len(stat_classifiers)
    /\ ctx.tokenizers_subrs = stat_tokenizers
    /\ ctx.tokenizers_count = Len(stat_tokenizers)
    /\ ctx.caches_subrs = stat_caches
    /\ ctx.caches_count = Len(stat_caches)

\* C19: while rspamd_stat_init makes its lookups the context exists and its
\* table views and counts are set; an accessor returns a value only while a
\* context exists; and the process has ended at the first read of an accessor
\* through stat_ctx only where no context exists.
C19_LookupsNeedContext ==
    /\ InInit => (stat_ctx # NULL /\ TablesPopulated)
    /\ pc = "lookup" => (stat_ctx # NULL /\ TablesPopulated /\ ret # NoCall)
    /\ (pc = "aborted" /\ failed_assert \in AccessorLines) =>
          (stat_ctx = NULL /\ ret = NoCall)
    /\ (stat_ctx = NULL /\ pc # "aborted") => (pc = "idle" /\ ret = NoCall)

\* C19 witness: an accessor was called after rspamd_stat_close had returned
C19_Witness ==
    /\ pc = "aborted"
    /\ failed_assert \in AccessorLines
    /\ ncloses >= 1
    /\ stat_ctx = NULL

====
